---- MODULE Spec2Model ----
(***************************************************************************)
(* Model of swagger-client-builder: the invoker built by _buildPaths       *)
(* (validate -> build URL -> resolve content-type -> encode -> dispatch),  *)
(* the reference resolver (_resolveRefs / _resolveRef), and the builder    *)
(* with its exporter (build, _buildPaths, prepareForMustache, export).     *)
(*                                                                         *)
(* JavaScript strings that the code takes apart or puts together (path     *)
(* templates, parameter names and values, URLs, encoded bodies) are        *)
(* sequences of tokens, one character per token unless the code treats     *)
(* the text as a unit.  JavaScript objects are sequences of [k, v]         *)
(* entries in property order, because for-in, Object.keys and              *)
(* URLSearchParams all follow that order.                                  *)
(***************************************************************************)
EXTENDS Integers, Sequences, FiniteSets, TLC

VARIABLES call,      \* the invocation in progress: one call of one invoker
          heap,      \* resolver: the object graph of the swagger document
          builder,   \* resolver: the builder's definitions / components members
          phase,     \* resolver: how many times _resolveRefs has run on the document
          once,      \* resolver: structure of the document after the first resolution
          refLog,    \* resolver: the pointers resolved so far, with what they yielded
          docShape,  \* resolver: the parameters the document was drawn from
          client,    \* the SwaggerClientBuilder instance that build() and export() work on
          flight     \* the calls of two callers that are in progress at the same time

vars == <<call, heap, builder, phase, once, refLog, docShape, client, flight>>

pipelineVars == <<call>>
resolverVars == <<heap, builder, phase, once, refLog, docShape>>
builderVars == <<client>>
concurrentVars == <<flight>>

-----------------------------------------------------------------------------
(* JavaScript objects as ordered entry lists *)

\* Object.keys(m)
Keys(m) == [i \in 1..Len(m) |-> m[i].k]

\* k in m (own property)
HasKey(m, k) == \E i \in 1..Len(m) : m[i].k = k

\* m[k] for a property that exists
Lookup(m, k) == m[CHOOSE i \in 1..Len(m) : m[i].k = k].v

\* m[k] = v: an existing property keeps its place, a new one goes last
Put(m, k, v) ==
    IF HasKey(m, k)
    THEN [i \in 1..Len(m) |-> IF m[i].k = k THEN [k |-> k, v |-> v] ELSE m[i]]
    ELSE Append(m, [k |-> k, v |-> v])

RECURSIVE Flatten(_)
\* string concatenation of a list of strings
Flatten(ss) == IF ss = <<>> THEN <<>> ELSE Head(ss) \o Flatten(Tail(ss))

\* String(undefined)
Undefined == <<"u", "n", "d", "e", "f", "i", "n", "e", "d">>

-----------------------------------------------------------------------------
(* _prepareParameters *)

EmptyFragment == [type |-> "object", properties |-> <<>>, required |-> <<>>]

RECURSIVE PrepareFromNoFold(_, _, _)
\* variant: a formData declaration gets a fragment of its own
PrepareFromNoFold(parameters, i, primeSchema) ==
    IF i > Len(parameters) THEN primeSchema
    ELSE LET parameter == parameters[i]
             at == parameter.in
         IN  IF parameter.in = ""
             THEN PrepareFromNoFold(parameters, i + 1, primeSchema)
             ELSE LET old == IF HasKey(primeSchema, at)
                             THEN Lookup(primeSchema, at) ELSE EmptyFragment
                      new == [old EXCEPT
                                !.properties = Put(@, parameter.name,
                                    [required |-> parameter.required,
                                     type |-> parameter.schema.type]),
                                !.required = IF parameter.required
                                             THEN Append(@, parameter.name) ELSE @]
                  IN  PrepareFromNoFold(parameters, i + 1, Put(primeSchema, at, new))

RECURSIVE PrepareFrom(_, _, _)
\* the forEach body of _prepareParameters, from declaration i on
PrepareFrom(parameters, i, primeSchema) ==
    IF i > Len(parameters) THEN primeSchema
    ELSE LET parameter == parameters[i]
             at == IF parameter.in = "formData" THEN "body" ELSE parameter.in
         IN  IF parameter.in = ""
             THEN PrepareFrom(parameters, i + 1, primeSchema)
             ELSE LET old == IF HasKey(primeSchema, at)
                             THEN Lookup(primeSchema, at) ELSE EmptyFragment
                      new == [old EXCEPT
                                !.properties = Put(@, parameter.name,
                                    [required |-> parameter.required,
                                     type |-> parameter.schema.type]),
                                !.required = IF parameter.required
                                             THEN Append(@, parameter.name) ELSE @]
                  IN  PrepareFrom(parameters, i + 1, Put(primeSchema, at, new))

PrepareParameters(parameters) == PrepareFrom(parameters, 1, <<>>)

-----------------------------------------------------------------------------
(* The validation engine (jsonschema Validator.validate), at its boundary:  *)
(* the number of violations of an object schema by an instance.            *)

TypeMatches(value, type) == type = "" \/ value.type = type

Validate(instance, schema) ==
    LET missing == {i \in 1..Len(schema.required) :
                        ~HasKey(instance, schema.required[i])}
        props == schema.properties
        flagged == {i \in 1..Len(props) :
                        props[i].v.required /\ ~HasKey(instance, props[i].k)}
        mistyped == {i \in 1..Len(props) :
                        /\ HasKey(instance, props[i].k)
                        /\ ~TypeMatches(Lookup(instance, props[i].k), props[i].v.type)}
    IN  Cardinality(missing) + Cardinality(flagged) + Cardinality(mistyped)

-----------------------------------------------------------------------------
(* URL building *)

\* index of the first "}" at or after position j, or 0 (the lazy (.*?) of the regex)
RECURSIVE CloseAt(_, _)
CloseAt(path, j) ==
    IF j > Len(path) THEN 0
    ELSE IF path[j] = "}" THEN j
    ELSE CloseAt(path, j + 1)

\* variant: a name that is no key of params leaves the placeholder as written
ReplaceCallbackKeep(params, c) ==
    IF HasKey(params, c) THEN Lookup(params, c).chars ELSE <<"{">> \o c \o <<"}">>

\* the replacement callback (m, c) => params[c], converted to a string by replace
ReplaceCallback(params, c) ==
    IF HasKey(params, c) THEN Lookup(params, c).chars ELSE Undefined

RECURSIVE ReplaceFrom(_, _, _)
\* path.replace(/{(.*?)}/g, (m, c) => params[c]), scanning from position i
ReplaceFrom(path, i, params) ==
    IF i > Len(path) THEN <<>>
    ELSE IF path[i] = "{" /\ CloseAt(path, i + 1) # 0
    THEN LET j == CloseAt(path, i + 1)
         IN  ReplaceCallback(params, SubSeq(path, i + 1, j - 1))
                \o ReplaceFrom(path, j + 1, params)
    ELSE <<path[i]>> \o ReplaceFrom(path, i + 1, params)

ReplacePathParams(path, params) == ReplaceFrom(path, 1, params)

\* application/x-www-form-urlencoded serialisation of one character
FormEncodeChar(c) ==
    IF c = " " THEN <<"+">>
    ELSE IF c = "&" THEN <<"%", "2", "6">>
    ELSE IF c = "=" THEN <<"%", "3", "D">>
    ELSE <<c>>

FormEncode(s) == Flatten([i \in 1..Len(s) |-> FormEncodeChar(s[i])])

RECURSIVE SearchParamsFrom(_, _)
SearchParamsFrom(m, i) ==
    IF i > Len(m) THEN <<>>
    ELSE (IF i > 1 THEN <<"&">> ELSE <<>>)
            \o FormEncode(m[i].k) \o <<"=">> \o FormEncode(m[i].v.chars)
            \o SearchParamsFrom(m, i + 1)

\* new URLSearchParams(m).toString()
URLSearchParamsToString(m) == SearchParamsFrom(m, 1)

\* variant: the "?" is appended whether or not there is a query string
BuildUrlAlwaysQuery(path, params, query) ==
    ReplacePathParams(path, params) \o <<"?">> \o URLSearchParamsToString(query)

\* `${urlPath}${queryString ? `?${queryString}` : ""}`
BuildUrl(path, params, query) ==
    LET urlPath == ReplacePathParams(path, params)
        queryString == URLSearchParamsToString(query)
    IN  urlPath \o (IF queryString # <<>> THEN <<"?">> \o queryString ELSE <<>>)

-----------------------------------------------------------------------------
(* Content-type resolution and body encoding *)

PayloadMethods == {"post", "put", "patch"}

InSeq(x, s) == \E i \in 1..Len(s) : s[i] = x

\* variant: the header is read under either spelling of its name
HeaderContentTypeAnyCase(options) ==
    LET named == IF options.hasHeaders
                 THEN {i \in 1..Len(options.headers) :
                          /\ options.headers[i].k \in {"Content-Type", "content-type"}
                          /\ options.headers[i].v # ""}
                 ELSE {}
    IN  IF named # {}
        THEN options.headers[CHOOSE i \in named : \A j \in named : i <= j].v
        ELSE "application/json"

\* options?.headers?.['Content-Type'] || "application/json"
HeaderContentType(options) ==
    IF /\ options.hasHeaders
       /\ HasKey(options.headers, "Content-Type")
       /\ Lookup(options.headers, "Content-Type") # ""
    THEN Lookup(options.headers, "Content-Type")
    ELSE "application/json"

\* the if / else if over contentTypeKeys
ResolveContentType(contentType, contentTypeKeys) ==
    IF /\ ~InSeq(contentType, contentTypeKeys)
       /\ Len(contentTypeKeys) > 0 /\ contentTypeKeys[1] # ""
    THEN contentTypeKeys[1]
    ELSE IF Len(contentTypeKeys) = 0 \/ contentTypeKeys[1] = ""
    THEN "application/json"
    ELSE contentType

\* method?.requestBody?.content?.[contentType]?.schema is present
HasRequestBodySchema(content, contentType) ==
    HasKey(content, contentType) /\ Lookup(content, contentType).hasSchema

RequestBodySchema(content, contentType) == Lookup(content, contentType).schema

XmlDecl == "<?xml version=\"1.0\" encoding=\"UTF-8\" standalone=\"yes\"?>"

XmlEscapeChar(c) == IF c = "&" THEN <<"&amp;">> ELSE <<c>>

XmlEscape(s) == Flatten([i \in 1..Len(s) |-> XmlEscapeChar(s[i])])

XmlElement(entry) ==
    <<"<">> \o entry.k \o <<">">> \o XmlEscape(entry.v.chars)
        \o <<"</">> \o entry.k \o <<">">>

\* new xml2js.Builder().buildObject(body): a single key becomes the root element
BuildObject(body) ==
    <<XmlDecl>> \o
    (IF Len(body) = 1 THEN XmlElement(body[1])
     ELSE IF Len(body) = 0 THEN <<"<root/>">>
     ELSE <<"<root>">> \o Flatten([i \in 1..Len(body) |-> XmlElement(body[i])])
            \o <<"</root>">>)

\* formData.append(key, body[key]) for every key: numbers are stored as strings
FormDataOf(body) ==
    [i \in 1..Len(body) |->
        [k |-> body[i].k, v |-> [type |-> "string", chars |-> body[i].v.chars]]]

Unencoded(body) == [kind |-> "object", text |-> <<>>, entries |-> body]

\* the "Convert body to content-type" chain
ConvertBody(contentType, body) ==
    IF contentType = "multipart/form-data"
    THEN [kind |-> "FormData", text |-> <<>>, entries |-> FormDataOf(body)]
    ELSE IF contentType = "application/x-www-form-urlencoded"
    THEN [kind |-> "string", text |-> URLSearchParamsToString(body), entries |-> <<>>]
    ELSE IF contentType = "application/xml"
    THEN [kind |-> "string", text |-> BuildObject(body), entries |-> <<>>]
    ELSE Unencoded(body)

\* variant: the conversion sits outside the post / put / patch branch
EncodeBodyAnyMethod(methodKey, contentType, body) == ConvertBody(contentType, body)

\* the body handed on: converted only inside the post / put / patch branch
EncodeBody(methodKey, contentType, body) ==
    IF methodKey \in PayloadMethods THEN ConvertBody(contentType, body)
    ELSE Unencoded(body)

-----------------------------------------------------------------------------
(* The invoker: primeObject[path][methodKey] = async function (args)        *)
(* A throw inside the try block is the record's error field being set:      *)
(* every later step leaves a record with an error as it is.                *)

NoRequest == [method |-> "", url |-> <<>>, data |-> Unencoded(<<>>), headers |-> <<>>]

Entered(args) ==
    [stages |-> <<>>, error |-> IF args.given THEN "" ELSE "TypeError",
     violations |-> 0, contentType |-> "", request |-> NoRequest,
     optionsAfter |-> args.options]

Thrown(st) == st.error # ""

\* variant: the violations are counted but nothing is thrown
StageNoThrow(st, name, errorName, instance, schema) ==
    [st EXCEPT !.stages = Append(@, name),
               !.violations = Validate(instance, schema)]

\* one validator.validate(...) call and the throw that follows it
Stage(st, name, errorName, instance, schema) ==
    LET n == Validate(instance, schema)
    IN  [st EXCEPT !.stages = Append(@, name),
                   !.error = IF n > 0 THEN errorName ELSE @,
                   !.violations = n]

ValidateQuery(primeSchema, args, st) ==
    IF Thrown(st) \/ ~HasKey(primeSchema, "query") THEN st
    ELSE Stage(st, "query", "QueryValidationError",
               args.query, Lookup(primeSchema, "query"))

\* variant: the path check throws the body check's error
ValidateParamsBodyError(primeSchema, args, st) ==
    IF Thrown(st) \/ ~HasKey(primeSchema, "path") THEN st
    ELSE [st EXCEPT !.stages = Append(@, "path"),
                    !.error = IF Validate(args.params, Lookup(primeSchema, "path")) > 0
                              THEN "BodyValidationError" ELSE @]

ValidateParams(primeSchema, args, st) ==
    IF Thrown(st) \/ ~HasKey(primeSchema, "path") THEN st
    ELSE Stage(st, "path", "ParamsValidationError",
               args.params, Lookup(primeSchema, "path"))

ValidateBody(primeSchema, args, st) ==
    IF Thrown(st) \/ ~HasKey(primeSchema, "body") THEN st
    ELSE Stage(st, "body", "BodyValidationError",
               args.body, Lookup(primeSchema, "body"))

\* variant: path parameters are checked before the query
ValidatingParamsFirst(primeSchema, args, st) ==
    ValidateBody(primeSchema, args,
        ValidateQuery(primeSchema, args,
            ValidateParams(primeSchema, args, st)))

\* the three synthesized-schema checks, in the order of the source
Validating(primeSchema, args, st) ==
    ValidateBody(primeSchema, args,
        ValidateParams(primeSchema, args,
            ValidateQuery(primeSchema, args, st)))

\* content-type: the caller's header or JSON, then the post / put / patch branch
SetContentType(method, methodKey, args, st) ==
    IF Thrown(st) THEN st
    ELSE LET contentType == HeaderContentType(args.options)
         IN  [st EXCEPT !.contentType =
                IF methodKey \in PayloadMethods
                THEN ResolveContentType(contentType, Keys(method.content))
                ELSE contentType]

\* "Validate requestBody component schema"
ValidateRequestBody(method, methodKey, args, st) ==
    IF \/ Thrown(st)
       \/ methodKey \notin PayloadMethods
       \/ ~HasRequestBodySchema(method.content, st.contentType)
    THEN st
    ELSE Stage(st, "requestBody", "BodyValidationError",
               args.body, RequestBodySchema(method.content, st.contentType))

\* options.headers["content-type"] = contentType, on the caller's own object
WithContentTypeHeader(options, contentType) ==
    [present |-> options.present, hasHeaders |-> TRUE,
     headers |-> Put(IF options.hasHeaders THEN options.headers ELSE <<>>,
                     "content-type", contentType)]

\* that.instance({ method: methodKey, url, data: body, ...options })
MakeRequest(path, method, methodKey, args, st) ==
    IF Thrown(st) THEN st
    ELSE LET options == WithContentTypeHeader(args.options, st.contentType)
         IN  [st EXCEPT
                !.optionsAfter = IF args.options.present THEN options ELSE @,
                !.request = [method |-> methodKey,
                             url |-> BuildUrl(path, args.params, args.query),
                             data |-> EncodeBody(methodKey, st.contentType, args.body),
                             headers |-> options.headers]]

\* the synchronous part of one call, up to the await
Invoker(path, methodKey, method, args) ==
    LET primeSchema == PrepareParameters(method.parameters)
        validated == Validating(primeSchema, args, Entered(args))
        typed == SetContentType(method, methodKey, args, validated)
        checked == ValidateRequestBody(method, methodKey, args, typed)
    IN  MakeRequest(path, method, methodKey, args, checked)

-----------------------------------------------------------------------------
(* Documents and arguments the calls are drawn from *)

Lit(text) == [ph |-> FALSE, text |-> text]
Ph(name) == [ph |-> TRUE, text |-> name]

\* /p/{id}, /s, /{a}/x/{id}
TemplateSegs ==
    { <<Lit(<<"/", "p", "/">>), Ph(<<"i", "d">>)>>,
      <<Lit(<<"/", "s">>)>>,
      <<Lit(<<"/">>), Ph(<<"a">>), Lit(<<"/", "x", "/">>), Ph(<<"i", "d">>)>> }

\* the path key of the document: placeholders written {name}
PathOf(segs) ==
    Flatten([i \in 1..Len(segs) |->
        IF segs[i].ph THEN <<"{">> \o segs[i].text \o <<"}">> ELSE segs[i].text])

\* the path keys /p/{id} and /s
PathP == <<"/", "p", "/", "{", "i", "d", "}">>
PathS == <<"/", "s">>

MethodKeys == {"get", "post", "put", "patch"}

Param(name, in, required, type) ==
    [name |-> name, in |-> in, required |-> required, schema |-> [type |-> type]]

FormParameters ==
    <<Param(<<"i", "d">>, "path", TRUE, "integer"),
      Param(<<"s", "t">>, "query", TRUE, "string"),
      Param(<<"n">>, "formData", TRUE, "string")>>

BodyParameters ==
    <<Param(<<"i", "d">>, "path", FALSE, "integer"),
      Param(<<"s", "t">>, "query", FALSE, "string"),
      Param(<<"n">>, "body", FALSE, "string")>>

ParameterLists == {<<>>, FormParameters, BodyParameters}

NameRequired ==
    [type |-> "object",
     properties |-> <<[k |-> <<"n">>, v |-> [required |-> FALSE, type |-> "string"]]>>,
     required |-> << <<"n">> >>]

Media(contentType, hasSchema) ==
    [k |-> contentType, v |-> [hasSchema |-> hasSchema, schema |-> NameRequired]]

\* requestBody.content of an operation, in document order
ContentLists ==
    { <<>>,
      <<Media("application/json", TRUE)>>,
      <<Media("application/xml", TRUE), Media("application/json", FALSE)>>,
      <<Media("multipart/form-data", FALSE)>>,
      <<Media("application/x-www-form-urlencoded", TRUE)>> }

Methods ==
    [parameters : ParameterLists, content : ContentLists]

Val(type, chars) == [type |-> type, chars |-> chars]

ParamsSets ==
    { <<>>,
      <<[k |-> <<"i", "d">>, v |-> Val("integer", <<"1", "2">>)]>>,
      <<[k |-> <<"i", "d">>, v |-> Val("string", <<"x">>)]>>,
      <<[k |-> <<"a">>, v |-> Val("string", <<"v">>)],
        [k |-> <<"i", "d">>, v |-> Val("integer", <<"7">>)]>> }

QuerySets ==
    { <<>>,
      <<[k |-> <<"s", "t">>, v |-> Val("string", <<"a", " ", "b">>)]>> }

BodySets ==
    { <<>>,
      <<[k |-> <<"n">>, v |-> Val("string", <<"r", "e", "x">>)]>>,
      <<[k |-> <<"n">>, v |-> Val("string", <<"a", "&", "b">>)],
        [k |-> <<"g">>, v |-> Val("integer", <<"7">>)]>> }

Headers(name, contentType) ==
    [present |-> TRUE, hasHeaders |-> TRUE,
     headers |-> <<[k |-> name, v |-> contentType]>>]

OptionsSets ==
    { [present |-> FALSE, hasHeaders |-> FALSE, headers |-> <<>>],
      [present |-> TRUE, hasHeaders |-> FALSE, headers |-> <<>>],
      Headers("Content-Type", "application/xml"),
      Headers("Content-Type", "application/json"),
      Headers("Content-Type", "text/plain"),
      Headers("content-type", "application/xml") }

\* the argument object of a call; given = FALSE is a call with no argument
ArgsSets ==
    [given : {TRUE}, params : ParamsSets, query : QuerySets,
     body : BodySets, options : OptionsSets]
    \cup
    { [given |-> FALSE, params |-> <<>>, query |-> <<>>, body |-> <<>>,
       options |-> [present |-> FALSE, hasHeaders |-> FALSE, headers |-> <<>>]] }

-----------------------------------------------------------------------------
(* The calls *)

Idle == [status |-> "idle"]

\* what that.instance(...) settled with: nothing yet, a response, or an error
NotSettled == [kind |-> "none", value |-> ""]
Returned(response) == [kind |-> "response", value |-> response]
Raised(error) == [kind |-> "error", value |-> error]

\* what the member instance of the client holds when the invoker reads it:
\* the HTTP client of axios.create, or the invoker that _buildPaths assigned
\* under the operationId "instance"
Instances == {"axios", "invoker"}

\* await Client.<operation>(args): runs the invoker up to its await.  When
\* that.instance is the invoker of an operation without parameters, the
\* dispatch calls that invoker, which calls itself in the same way before any
\* await, until the stack is exhausted; the RangeError comes back through the
\* catch blocks and the HTTP client is never called.
Invoke(segs, methodKey, method, args) ==
    /\ call.status = "idle"
    /\ LET path == PathOf(segs)
           st == Invoker(path, methodKey, method, args)
           made == [status |-> "pending",
                    segs |-> segs, path |-> path, methodKey |-> methodKey,
                    method |-> method, args |-> args, instance |-> "axios",
                    stages |-> st.stages, error |-> st.error,
                    violations |-> st.violations,
                    contentType |-> st.contentType, request |-> st.request,
                    optionsAfter |-> st.optionsAfter,
                    httpCalls |-> 1,
                    transport |-> NotSettled,
                    response |-> "none"]
       IN  \E instance \in Instances :
              call' = IF Thrown(st)
                      THEN [made EXCEPT !.status = "rejected", !.httpCalls = 0,
                                        !.instance = instance]
                      ELSE IF instance = "axios" THEN made
                      ELSE [made EXCEPT !.status = "rejected", !.httpCalls = 0,
                                        !.instance = instance,
                                        !.error = "RangeError"]
    /\ UNCHANGED <<resolverVars, builderVars, concurrentVars>>

\* the HTTP client returns a response: resolve(response)
HttpResolve ==
    /\ call.status = "pending"
    /\ LET response == "response"
       IN  call' = [call EXCEPT !.status = "resolved",
                                !.transport = Returned(response),
                                !.response = response]
    /\ UNCHANGED <<resolverVars, builderVars, concurrentVars>>

\* the HTTP client throws: the catch block calls reject(error)
HttpReject ==
    /\ call.status = "pending"
    /\ LET error == "TransportError"
       IN  call' = [call EXCEPT !.status = "rejected",
                                !.transport = Raised(error),
                                !.error = error]
    /\ UNCHANGED <<resolverVars, builderVars, concurrentVars>>

\* the caller's await returns or throws; the next call may start
Return ==
    /\ call.status \in {"resolved", "rejected"}
    /\ call' = Idle
    /\ UNCHANGED <<resolverVars, builderVars, concurrentVars>>

NoDocument == [top |-> "none"]

\* no SwaggerClientBuilder has been constructed
NoClient == [status |-> "none"]

\* no caller has started a call
NoFlight == [status |-> "none"]

Init ==
    /\ call = Idle
    /\ client = NoClient
    /\ flight = NoFlight
    /\ heap = <<>>
    /\ builder = <<>>
    /\ phase = 0
    /\ once = <<>>
    /\ refLog = <<>>
    /\ docShape = NoDocument

Next ==
    \/ /\ call.status = "idle"
       /\ \E segs \in TemplateSegs, methodKey \in MethodKeys,
             method \in Methods, args \in ArgsSets :
                Invoke(segs, methodKey, method, args)
    \/ HttpResolve
    \/ HttpReject
    \/ Return

Spec == Init /\ [][Next]_vars

\* The HTTP client settles every request it was handed (a response, an error
\* status, a network failure or its timeout), and the code after the await
\* runs as soon as it has.
SpecSettling == Spec /\ WF_vars(HttpResolve \/ HttpReject)

-----------------------------------------------------------------------------
(* Properties of one invocation *)

Active == call.status # "idle"

Dispatched == Active /\ call.httpCalls > 0

StageOrder == <<"query", "path", "body", "requestBody">>

PrimeSchemaOfCall == PrepareParameters(call.method.parameters)

\* the caller's value a stage checks
StageInstance(s) ==
    IF s = "query" THEN call.args.query
    ELSE IF s = "path" THEN call.args.params
    ELSE call.args.body

\* the stage has a schema to check against in this call
StageApplies(s) ==
    IF s = "requestBody"
    THEN /\ call.methodKey \in PayloadMethods
         /\ call.contentType # ""
         /\ HasRequestBodySchema(call.method.content, call.contentType)
    ELSE HasKey(PrimeSchemaOfCall, s)

StageSchema(s) ==
    IF s = "requestBody"
    THEN RequestBodySchema(call.method.content, call.contentType)
    ELSE Lookup(PrimeSchemaOfCall, s)

\* the validation engine reports at least one violation for the stage
StageFails(s) ==
    StageApplies(s) /\ Validate(StageInstance(s), StageSchema(s)) > 0

SomeStageFails == \E i \in 1..Len(StageOrder) : StageFails(StageOrder[i])

RECURSIVE ExpectedStagesFrom(_)
\* the applicable stages from the i-th on, up to and including the first that fails
ExpectedStagesFrom(i) ==
    IF i > Len(StageOrder) THEN <<>>
    ELSE IF ~StageApplies(StageOrder[i]) THEN ExpectedStagesFrom(i + 1)
    ELSE <<StageOrder[i]>> \o
         (IF StageFails(StageOrder[i]) THEN <<>> ELSE ExpectedStagesFrom(i + 1))

FailedStage == call.stages[Len(call.stages)]

\* C1: the stages that apply run in the order query, path, body, requestBody
\* (requestBody only for post, put, patch); the call stops at the first stage
\* that reports a violation and evaluates no later stage.
C1_StagesInOrderStopAtFirstFailure ==
    (Active /\ call.args.given) =>
        /\ call.stages = ExpectedStagesFrom(1)
        /\ InSeq("requestBody", call.stages) => call.methodKey \in PayloadMethods
        /\ SomeStageFails =>
            /\ call.status = "rejected"
            /\ call.stages # <<>>
            /\ StageFails(FailedStage)
            /\ \A i \in 1..(Len(call.stages) - 1) : ~StageFails(call.stages[i])

\* query passed, path failed, and the body check that would also have failed never ran
C1_Witness ==
    /\ Active
    /\ call.stages = <<"query", "path">>
    /\ call.error = "ParamsValidationError"
    /\ HasKey(PrimeSchemaOfCall, "body")
    /\ Validate(call.args.body, Lookup(PrimeSchemaOfCall, "body")) > 0

\* C2: the HTTP client is called only when every applicable stage reported zero
\* violations; a violation rejects the call with the HTTP client never called.
C2_NoDispatchOnViolation ==
    Active =>
        /\ call.httpCalls \in {0, 1}
        /\ SomeStageFails =>
            /\ call.status = "rejected"
            /\ call.httpCalls = 0
            /\ call.request = NoRequest

\* the required path parameter is absent from params
C2_Witness ==
    /\ Active
    /\ call.args.given /\ call.args.params = <<>>
    /\ call.status = "rejected"
    /\ call.error = "ParamsValidationError"
    /\ call.httpCalls = 0

ValidationErrors ==
    {"QueryValidationError", "ParamsValidationError",
     "BodyValidationError", "RequestBodyValidationError"}

RejectedByValidation ==
    Active /\ call.status = "rejected" /\ call.error \in ValidationErrors

ContentTypeNames == {"Content-Type", "content-type"}

\* the caller put a content-type header into options.headers
CallerSuppliesContentType ==
    /\ call.args.given
    /\ call.args.options.hasHeaders
    /\ \E i \in 1..Len(call.args.options.headers) :
            call.args.options.headers[i].k \in ContentTypeNames

CallerContentType ==
    LET h == call.args.options.headers
    IN  h[CHOOSE i \in 1..Len(h) : h[i].k \in ContentTypeNames].v

\* the call got as far as resolving a content-type for a payload method
PayloadResolved ==
    Active /\ call.methodKey \in PayloadMethods /\ call.contentType # ""

\* C4: on post, put, patch a content-type header supplied by the caller is the
\* resolved content-type, whatever the operation declares.
C4_CallerContentTypeWins ==
    (PayloadResolved /\ CallerSuppliesContentType) =>
        call.contentType = CallerContentType

\* C5: without a caller-supplied content-type the resolved content-type is the
\* first one declared, and application/json when none is declared.
C5_FirstDeclaredContentType ==
    (PayloadResolved /\ ~CallerSuppliesContentType) =>
        call.contentType = (IF call.method.content = <<>> THEN "application/json"
                            ELSE call.method.content[1].k)

\* number of positions of s holding the token t
Count(s, t) == Cardinality({i \in 1..Len(s) : s[i] = t})

Contains(s, sub) ==
    \E i \in 0..(Len(s) - Len(sub)) : SubSeq(s, i + 1, i + Len(sub)) = sub

Placeholder(name) == <<"{">> \o name \o <<"}">>

\* the text a segment of the template stands for in the URL; a placeholder
\* whose name is no key of params is kept as written or becomes "undefined"
SegmentText(seg, params, keep) ==
    IF ~seg.ph THEN seg.text
    ELSE IF HasKey(params, seg.text) THEN Lookup(params, seg.text).chars
    ELSE IF keep THEN Placeholder(seg.text)
    ELSE Undefined

ExpectedPath(segs, params, keep) ==
    Flatten([i \in 1..Len(segs) |-> SegmentText(segs[i], params, keep)])

QuerySuffix(query) ==
    IF query = <<>> THEN <<>> ELSE <<"?">> \o URLSearchParamsToString(query)

\* placeholders of the template whose name is no key of params
MissingPlaceholders ==
    {i \in 1..Len(call.segs) :
        call.segs[i].ph /\ ~HasKey(call.args.params, call.segs[i].text)}

C8_UrlSubstitutionAndQuery ==
    Dispatched =>
        /\ \E keep \in BOOLEAN :
              call.request.url =
                  ExpectedPath(call.segs, call.args.params, keep)
                     \o QuerySuffix(call.args.query)
        /\ InSeq("?", call.request.url) <=> call.args.query # <<>>

\* /p/{id} with id = 12 and a query
C8_Witness ==
    /\ Dispatched
    /\ call.path = <<"/", "p", "/", "{", "i", "d", "}">>
    /\ call.args.query # <<>>
    /\ call.request.url =
          <<"/", "p", "/", "1", "2", "?", "s", "t", "=", "a", "+", "b">>

\* the call got through every validation stage that applies to it
PassedValidation == Active /\ call.args.given /\ ~SomeStageFails

Settled == call.status \in {"resolved", "rejected"}

\* the dispatch of a call and what the call settles with
DispatchedOnce ==
    /\ PassedValidation => call.httpCalls = 1
    /\ Active => call.httpCalls <= 1
    /\ (Active /\ call.status = "pending") => call.transport = NotSettled
    /\ (Active /\ call.status = "resolved") =>
            /\ call.transport.kind = "response"
            /\ call.response = call.transport.value
    /\ (Dispatched /\ call.status = "rejected") =>
            /\ call.transport.kind = "error"
            /\ call.error = call.transport.value

\* C21: a call that passes validation calls the HTTP client exactly once and
\* never again; it resolves with the response the HTTP client returned or
\* rejects with the error the HTTP client raised; and a call that waits for
\* the HTTP client settles once the HTTP client has settled.
C21_DispatchedOnceAndSettles ==
    /\ []DispatchedOnce
    /\ (Active /\ call.status = "pending") ~> Settled

\* C25: a call leaves the caller's argument objects as they were: after the
\* call has settled, options (with options.headers) holds the members and
\* values it held before the call.
C25_ArgumentsUnchanged ==
    (Active /\ Settled) => call.optionsAfter = call.args.options

\* the entries of the dispatched header map that name the content-type
ContentTypeEntries ==
    {i \in 1..Len(call.request.headers) :
        call.request.headers[i].k \in ContentTypeNames}

\* C26: the header map handed to the HTTP client holds exactly one
\* content-type entry, and its value is the resolved content-type, also when
\* the caller supplied a content-type header of its own.
C26_OneContentTypeHeader ==
    Dispatched =>
        /\ Cardinality(ContentTypeEntries) = 1
        /\ \A i \in ContentTypeEntries :
                call.request.headers[i].v = call.contentType

-----------------------------------------------------------------------------
(* Two callers at once.  JavaScript runs an invoker without interruption up *)
(* to its await, so the calls interleave at the awaits only; what they can  *)
(* share beside the built client is an options object both callers pass.    *)
(* The HTTP client copies the header map when it is called, so a request    *)
(* holds the headers as they were at the dispatch.                          *)

Callers == {"a", "b"}

NoOptions == [present |-> FALSE, hasHeaders |-> FALSE, headers |-> <<>>]

\* the options objects a caller may hold and pass to several calls
SharedOptions == {options \in OptionsSets : options.present}

\* the invokers of the built client the callers use
SharedInvokers ==
    { [path |-> PathS, methodKey |-> "post",
       method |-> [parameters |-> <<>>,
                   content |-> <<Media("multipart/form-data", FALSE)>>]],
      [path |-> PathP, methodKey |-> "put",
       method |-> [parameters |-> FormParameters,
                   content |-> <<Media("application/xml", TRUE),
                                 Media("application/json", FALSE)>>]],
      [path |-> PathS, methodKey |-> "get",
       method |-> [parameters |-> <<>>, content |-> <<>>]] }

\* params, query and body of the callers' calls; options is set per call
SharedArgs ==
    { args \in ArgsSets :
        /\ args.given
        /\ args.options = NoOptions
        /\ args.params \in {<<>>, <<[k |-> <<"i", "d">>, v |-> Val("integer", <<"1", "2">>)]>>}
        /\ args.query = <<>>
        /\ args.body \in {<<>>, <<[k |-> <<"n">>, v |-> Val("string", <<"r", "e", "x">>)]>>} }

\* caller c calls an invoker; shares: it passes the options object, else none
InvokeBy(c, invoker, args, shares) ==
    /\ flight.status = "open"
    /\ flight.calls[c].status = "idle"
    /\ LET options == IF shares THEN flight.object ELSE NoOptions
           st == Invoker(invoker.path, invoker.methodKey, invoker.method,
                         [args EXCEPT !.options = options])
       IN  flight' = [flight EXCEPT
                !.object = IF shares THEN st.optionsAfter ELSE @,
                !.calls[c] = [status |-> IF Thrown(st) THEN "rejected" ELSE "pending",
                              invoker |-> invoker, args |-> args, shares |-> shares,
                              error |-> st.error, contentType |-> st.contentType,
                              request |-> st.request,
                              httpCalls |-> IF Thrown(st) THEN 0 ELSE 1,
                              transport |-> NotSettled,
                              response |-> <<>>]]
    /\ UNCHANGED <<pipelineVars, resolverVars, builderVars>>

\* the HTTP client answers the request of caller c: resolve(response)
HttpResolveFor(c) ==
    /\ flight.status = "open"
    /\ flight.calls[c].status = "pending"
    /\ LET response == <<"response", c>>
       IN  flight' = [flight EXCEPT !.calls[c].status = "resolved",
                                    !.calls[c].transport = Returned(response),
                                    !.calls[c].response = response]
    /\ UNCHANGED <<pipelineVars, resolverVars, builderVars>>

\* the HTTP client fails the request of caller c: reject(error)
HttpRejectFor(c) ==
    /\ flight.status = "open"
    /\ flight.calls[c].status = "pending"
    /\ LET error == "TransportError"
       IN  flight' = [flight EXCEPT !.calls[c].status = "rejected",
                                    !.calls[c].transport = Raised(error),
                                    !.calls[c].error = error]
    /\ UNCHANGED <<pipelineVars, resolverVars, builderVars>>

\* the await of caller c completes; c may call again, with the same object
ReturnTo(c) ==
    /\ flight.status = "open"
    /\ flight.calls[c].status \in {"resolved", "rejected"}
    /\ flight' = [flight EXCEPT !.calls[c] = Idle]
    /\ UNCHANGED <<pipelineVars, resolverVars, builderVars>>

InitConcurrent ==
    /\ call = Idle
    /\ client = NoClient
    /\ heap = <<>>
    /\ builder = <<>>
    /\ phase = 0
    /\ once = <<>>
    /\ refLog = <<>>
    /\ docShape = NoDocument
    /\ \E options \in SharedOptions :
            flight = [status |-> "open", given |-> options, object |-> options,
                      calls |-> [c \in Callers |-> Idle]]

NextConcurrent ==
    \E c \in Callers :
        \/ /\ flight.calls[c].status = "idle"
           /\ \E invoker \in SharedInvokers, args \in SharedArgs, shares \in BOOLEAN :
                    InvokeBy(c, invoker, args, shares)
        \/ HttpResolveFor(c)
        \/ HttpRejectFor(c)
        \/ ReturnTo(c)

SpecConcurrent == InitConcurrent /\ [][NextConcurrent]_vars

InFlight(c) == flight.status = "open" /\ flight.calls[c].status # "idle"

\* the same call made on its own, with the options object as the caller made it
Alone(c) ==
    LET k == flight.calls[c]
    IN  Invoker(k.invoker.path, k.invoker.methodKey, k.invoker.method,
                [k.args EXCEPT !.options = IF k.shares THEN flight.given
                                           ELSE NoOptions])

\* C23: in every interleaving of the calls of two callers, of the same or of
\* different invokers, each call dispatches the request (method, URL, body,
\* headers) and has the outcome it would have if it ran alone.
C23_CallsDoNotInterfere ==
    \A c \in Callers : InFlight(c) =>
        LET k == flight.calls[c]
            alone == Alone(c)
        IN  /\ k.request = alone.request
            /\ k.contentType = alone.contentType
            /\ k.httpCalls = (IF Thrown(alone) THEN 0 ELSE 1)
            /\ Thrown(alone) => (k.status = "rejected" /\ k.error = alone.error)
            /\ k.status = "resolved" => k.response = <<"response", c>>
            /\ (k.status = "rejected" /\ ~Thrown(alone)) => k.error = "TransportError"

\* both callers wait for the HTTP client, having passed the same options
\* object to operations of different content-types
C23_Witness ==
    /\ InFlight("a") /\ InFlight("b")
    /\ flight.calls["a"].status = "pending" /\ flight.calls["b"].status = "pending"
    /\ flight.calls["a"].shares /\ flight.calls["b"].shares
    /\ flight.calls["a"].contentType # flight.calls["b"].contentType
    /\ flight.object # flight.given

-----------------------------------------------------------------------------
(* The reference resolver: _resolveRefs / _resolveRef of the constructor.   *)
(* The document is an object graph: heap[id] is the object with that id, a  *)
(* list of [k, v] entries whose values are strings or references to         *)
(* objects.  A pointer string is kept as its split("/") segments.           *)

Str(s) == [t |-> "str", s |-> s, o |-> 0]
Obj(id) == [t |-> "obj", s |-> <<>>, o |-> id]

\* deepest nesting of _resolveRefs calls the JavaScript stack is given
MaxDepth == 12

\* a JavaScript value is truthy: an object, or a string that is not empty
Truthy(value) == value.t = "obj" \/ value.s # <<>>

\* obj[key]?.$ref is truthy
IsRefNode(h, value) ==
    /\ value.t = "obj"
    /\ HasKey(h[value.o], "$ref")
    /\ Truthy(Lookup(h[value.o], "$ref"))

\* this?.[location]?.[componentName] is truthy
ComponentFound(b, h, location, componentName) ==
    /\ HasKey(b, location)
    /\ HasKey(h[Lookup(b, location)], componentName)
    /\ Truthy(Lookup(h[Lookup(b, location)], componentName))

\* variant: without the else branch a pointer that names no member yields undefined
ResolveRefNoFallback(b, st, ref) ==
    LET location == IF Len(ref) >= 2 /\ ref[2] \in {"definitions", "components"}
                    THEN ref[2]
                    ELSE IF Len(ref) >= 3 THEN ref[3] ELSE "undefined"
        componentName == ref[Len(ref)]
    IN  IF ComponentFound(b, st.heap, location, componentName)
        THEN [st |-> st,
              value |-> Lookup(st.heap[Lookup(b, location)], componentName)]
        ELSE [st |-> st, value |-> Str(<<>>)]

\* _resolveRef(ref): the component the pointer names, or a new {} when not found
ResolveRef(b, st, ref) ==
    LET location == IF Len(ref) >= 2 /\ ref[2] \in {"definitions", "components"}
                    THEN ref[2]
                    ELSE IF Len(ref) >= 3 THEN ref[3] ELSE "undefined"
        componentName == ref[Len(ref)]
    IN  IF ComponentFound(b, st.heap, location, componentName)
        THEN [st |-> st,
              value |-> Lookup(st.heap[Lookup(b, location)], componentName)]
        ELSE [st |-> [st EXCEPT !.heap = Append(@, <<>>)],
              value |-> Obj(Len(st.heap) + 1)]

RECURSIVE ResolveRefs(_, _, _, _)
RECURSIVE ResolveKeys(_, _, _, _, _)

\* the for-in loop of _resolveRefs over the object id, from its i-th key on
ResolveKeys(b, st, id, i, depth) ==
    IF st.overflow \/ i > Len(st.heap[id]) THEN st
    ELSE LET value == st.heap[id][i].v
         IN  IF IsRefNode(st.heap, value)
             THEN LET ref == Lookup(st.heap[value.o], "$ref").s
                      r == ResolveRef(b, st, ref)
                      put == [r.st EXCEPT
                                !.heap[id][i].v = r.value,
                                !.log = Append(@, [ref |-> ref, holder |-> id, index |-> i])]
                      done == IF r.value.t = "obj"
                              THEN ResolveRefs(b, put, r.value.o, depth + 1)
                              ELSE put
                  IN  ResolveKeys(b, done, id, i + 1, depth)
             ELSE IF value.t = "obj"
             THEN ResolveKeys(b, ResolveRefs(b, st, value.o, depth + 1), id, i + 1, depth)
             ELSE ResolveKeys(b, st, id, i + 1, depth)

\* _resolveRefs(obj); a call nested deeper than the stack allows throws RangeError
ResolveRefs(b, st, id, depth) ==
    IF depth > MaxDepth THEN [st EXCEPT !.overflow = TRUE]
    ELSE ResolveKeys(b, st, id, 1, depth)

RECURSIVE Structure(_, _, _)
\* the value as a tree, by structure alone (object identity forgotten)
Structure(h, value, depth) ==
    IF value.t = "str" THEN [t |-> "str", s |-> value.s, c |-> <<>>]
    ELSE IF depth > MaxDepth THEN [t |-> "cut", s |-> <<>>, c |-> <<>>]
    ELSE [t |-> "obj", s |-> <<>>,
          c |-> [i \in 1..Len(h[value.o]) |->
                    [k |-> h[value.o][i].k,
                     n |-> Structure(h, h[value.o][i].v, depth + 1)]]]

\* ids of the objects that are values of the objects in ids
Children(h, ids) ==
    UNION {{h[id][i].v.o : i \in {j \in 1..Len(h[id]) : h[id][j].v.t = "obj"}} :
            id \in ids}

RECURSIVE ReachableFrom(_, _)
ReachableFrom(h, ids) ==
    LET more == ids \cup Children(h, ids)
    IN  IF more = ids THEN ids ELSE ReachableFrom(h, more)

Root == 1

\* a node of shape {$ref: pointer} is left somewhere in the document
HasRefNode(h) ==
    \E id \in ReachableFrom(h, {Root}) : IsRefNode(h, Obj(id))

-----------------------------------------------------------------------------
(* Documents the resolver is run on.  Two components A and B, each plain, a *)
(* bare reference, or an array whose items are a reference; one reference   *)
(* site in paths, visited before the collection, and one in responses,      *)
(* visited after it.  "M" names a member the collection does not have.      *)

ComponentShapes ==
    {[kind |-> "plain", to |-> ""]}
        \cup [kind : {"ref", "nested"}, to : {"A", "B", "M"}]

DocShapes ==
    [top : {"definitions", "components"},
     order : {<<"A", "B">>, <<"B", "A">>},
     A : ComponentShapes,
     B : ComponentShapes,
     before : {"", "A", "B", "M"},
     after : {"", "A", "B", "M", "P"}]

Pointer(shape, name) ==
    IF shape.top = "definitions" THEN <<"#", "definitions", name>>
    ELSE <<"#", "components", "schemas", name>>

RefNode(shape, name) == <<[k |-> "$ref", v |-> Str(Pointer(shape, name))]>>

\* the pointer to the member A of the parameters collection, which has the
\* name of a schema
ParameterPointer(shape) ==
    IF shape.top = "definitions" THEN <<"#", "parameters", "A">>
    ELSE <<"#", "components", "parameters", "A">>

\* the object that is the parameter A
ParameterNode == 17

\* a place where a schema is expected: a reference, or an inline schema;
\* "P" is a reference to the parameter A
SiteNode(shape, name) ==
    IF name = "" THEN <<[k |-> "type", v |-> Str(<<"string">>)]>>
    ELSE IF name = "P" THEN <<[k |-> "$ref", v |-> Str(ParameterPointer(shape))]>>
    ELSE RefNode(shape, name)

\* the component's own object; inner is the id of its items object
ComponentNode(shape, c, inner) ==
    IF c.kind = "plain" THEN <<[k |-> "type", v |-> Str(<<"object">>)]>>
    ELSE IF c.kind = "ref" THEN RefNode(shape, c.to)
    ELSE <<[k |-> "type", v |-> Str(<<"array">>)], [k |-> "items", v |-> Obj(inner)]>>

ItemsNode(shape, c) ==
    IF c.kind = "nested" THEN RefNode(shape, c.to) ELSE <<>>

ComponentId(name) == IF name = "A" THEN 11 ELSE 12

\* the parsed document as an object graph
DocumentHeap(shape) ==
    << <<[k |-> "paths", v |-> Obj(2)],                                \* 1 root
         [k |-> shape.top,
          v |-> Obj(IF shape.top = "components" THEN 3 ELSE 5)],
         [k |-> "responses", v |-> Obj(4)]>>
        \o (IF shape.top = "definitions"
            THEN <<[k |-> "parameters", v |-> Obj(16)]>> ELSE <<>>),
       <<[k |-> "/p", v |-> Obj(6)]>>,                                 \* 2 paths
       <<[k |-> "schemas", v |-> Obj(5)],                              \* 3 components
         [k |-> "parameters", v |-> Obj(16)]>>,
       <<[k |-> "NotFound", v |-> Obj(9)]>>,                           \* 4 responses
       [i \in 1..Len(shape.order) |->                                  \* 5 collection
           [k |-> shape.order[i], v |-> Obj(ComponentId(shape.order[i]))]],
       <<[k |-> "get", v |-> Obj(7)]>>,                                \* 6 path item
       <<[k |-> "operationId", v |-> Str(<<"getP">>)],                 \* 7 operation
         [k |-> "schema", v |-> Obj(8)]>>,
       SiteNode(shape, shape.before),                                  \* 8
       <<[k |-> "schema", v |-> Obj(10)]>>,                            \* 9 response
       SiteNode(shape, shape.after),                                   \* 10
       ComponentNode(shape, shape.A, 13),                              \* 11 A
       ComponentNode(shape, shape.B, 14),                              \* 12 B
       ItemsNode(shape, shape.A),                                      \* 13
       ItemsNode(shape, shape.B),                                      \* 14
       <<>>,                                                           \* 15 the || {}
       <<[k |-> "A", v |-> Obj(ParameterNode)]>>,                      \* 16 parameters
       <<[k |-> "name", v |-> Str(<<"i", "d">>)],                      \* 17 parameter A
         [k |-> "in", v |-> Str(<<"path">>)]>> >>

\* this.paths, this.components, this.definitions as the constructor sets them
BuilderOf(shape) ==
    <<[k |-> "paths", v |-> 2],
      [k |-> "components", v |-> IF shape.top = "components" THEN 5 ELSE 15],
      [k |-> "definitions", v |-> IF shape.top = "definitions" THEN 5 ELSE 15]>>

\* the components a component refers to
RefersTo(shape, name) ==
    LET c == IF name = "A" THEN shape.A ELSE shape.B
    IN  IF c.kind = "plain" \/ c.to = "M" THEN {} ELSE {c.to}

\* no component refers to itself, directly or through the other
Acyclic(shape) ==
    /\ "A" \notin RefersTo(shape, "A")
    /\ "B" \notin RefersTo(shape, "B")
    /\ ~("B" \in RefersTo(shape, "A") /\ "A" \in RefersTo(shape, "B"))

-----------------------------------------------------------------------------
(* Running the resolver *)

\* this.swaggerJson = this._resolveRefs(this.swaggerJson) in the constructor
Construct ==
    /\ phase = "loaded"
    /\ LET st == ResolveRefs(builder, [heap |-> heap, log |-> <<>>, overflow |-> FALSE],
                             Root, 1)
       IN  /\ heap' = st.heap
           /\ refLog' = st.log
           /\ phase' = IF st.overflow THEN "overflow" ELSE "resolved"
           /\ once' = IF st.overflow THEN <<>>
                      ELSE <<Structure(st.heap, Obj(Root), 1)>>
    /\ UNCHANGED <<builder, docShape, call, client, flight>>

\* _resolveRefs run once more, on the document it has already resolved
ResolveAgain ==
    /\ phase = "resolved"
    /\ LET st == ResolveRefs(builder, [heap |-> heap, log |-> <<>>, overflow |-> FALSE],
                             Root, 1)
       IN  /\ heap' = st.heap
           /\ phase' = IF st.overflow THEN "overflow" ELSE "resolvedTwice"
    /\ UNCHANGED <<builder, docShape, call, once, refLog, client, flight>>

InitResolver ==
    /\ call = Idle
    /\ client = NoClient
    /\ flight = NoFlight
    /\ docShape \in DocShapes
    /\ heap = DocumentHeap(docShape)
    /\ builder = BuilderOf(docShape)
    /\ phase = "loaded"
    /\ once = <<>>
    /\ refLog = <<>>

NextResolver == Construct \/ ResolveAgain

SpecResolver == InitResolver /\ [][NextResolver]_vars

Resolved == phase \in {"resolved", "resolvedTwice"}

\* C9: after resolution of a document whose references form no cycle, no node
\* of shape {$ref: pointer} is left anywhere in the document, wherever the
\* reference sits and whatever it leads through.
C9_NoRefNodeRemains ==
    (Resolved /\ Acyclic(docShape)) => ~HasRefNode(heap)

\* what the document holds, at the end, where the i-th logged reference stood
Substituted(i) ==
    Structure(heap, heap[refLog[i].holder][refLog[i].index].v, 1)

\* C10: resolving the resolved document again changes nothing, and one pointer
\* resolved at two moments of a resolution yields the same structure.
C10_ResolutionIdempotent ==
    Acyclic(docShape) =>
        /\ phase = "resolvedTwice" => <<Structure(heap, Obj(Root), 1)>> = once
        /\ phase = "resolved" =>
              \A i, j \in 1..Len(refLog) :
                  refLog[i].ref = refLog[j].ref => Substituted(i) = Substituted(j)

\* the pointer names a member its collection does not have
NamesNoMember(ref) == ref[Len(ref)] = "M"

\* the value now standing where the i-th logged reference stood
SiteValue(i) == heap[refLog[i].holder][refLog[i].index].v

C28_ReplacedByNamedMember ==
    phase = "resolved" =>
        \A i \in 1..Len(refLog) :
            /\ (refLog[i].ref = Pointer(docShape, "A") /\ docShape.A.kind = "plain")
                    => SiteValue(i) = Obj(ComponentId("A"))
            /\ (refLog[i].ref = Pointer(docShape, "B") /\ docShape.B.kind = "plain")
                    => SiteValue(i) = Obj(ComponentId("B"))
            /\ refLog[i].ref = ParameterPointer(docShape)
                    => SiteValue(i) = Obj(ParameterNode)

\* C12: resolution comes to an end on every document, also when a component
\* refers to itself, directly or through the other component.
C12_ResolutionTerminates == phase # "overflow"

-----------------------------------------------------------------------------
(* The builder: constructor, build(), _checkOperationIds, _buildPaths.      *)
(* An operationId is one token.  A member that the code leaves null or      *)
(* undefined is the empty string or the empty list.                         *)

Operation(operationId, parameters, content) ==
    [operationId |-> operationId, parameters |-> parameters, content |-> content]


\* parameter lists beside those of ParameterLists: a single path parameter;
\* a header parameter, a declaration with no location and a query parameter;
\* one name declared twice in one location
PathOnly == <<Param(<<"i", "d">>, "path", TRUE, "integer")>>

HeaderAndNoLocation ==
    <<Param(<<"h">>, "header", TRUE, "string"),
      Param(<<"x">>, "", TRUE, "string"),
      Param(<<"s", "t">>, "query", FALSE, "string")>>

DeclaredTwice ==
    <<Param(<<"i", "d">>, "path", TRUE, "integer"),
      Param(<<"i", "d">>, "path", FALSE, "string")>>

\* a member of a path item that is not an operation (a path-level parameters
\* list, a summary): read as an operation it has no operationId, no
\* parameters and no requestBody
NotAnOperation == Operation("", <<>>, <<>>)

\* path maps of Swagger 2 documents: parameters only, no requestBody
PathMaps2 ==
    { <<[k |-> PathP, v |->
           <<[k |-> "get", v |-> Operation("getP", FormParameters, <<>>)],
             [k |-> "post", v |-> Operation("addP", BodyParameters, <<>>)]>>]>>,
      <<[k |-> PathS, v |->
           <<[k |-> "get", v |-> Operation("", <<>>, <<>>)]>>],
        [k |-> PathP, v |->
           <<[k |-> "put", v |-> Operation("putP", FormParameters, <<>>)]>>]>> }

\* path maps of OpenAPI 3 documents: requestBody.content beside the parameters
PathMaps3 ==
    { <<[k |-> PathP, v |->
           <<[k |-> "get", v |-> Operation("getP", PathOnly, <<>>)],
             [k |-> "post", v |-> Operation("addP", <<>>,
                    <<Media("application/xml", TRUE),
                      Media("application/json", FALSE)>>)]>>]>>,
      <<[k |-> PathP, v |->
           <<[k |-> "get", v |-> Operation("dup", DeclaredTwice, <<>>)]>>],
        [k |-> PathS, v |->
           <<[k |-> "post", v |-> Operation("dup", HeaderAndNoLocation,
                    <<Media("multipart/form-data", FALSE)>>)]>>]>>,
      <<[k |-> PathS, v |->
           <<[k |-> "get", v |-> Operation("", <<>>, <<>>)],
             [k |-> "put", v |-> Operation("putS", <<>>,
                    <<Media("application/x-www-form-urlencoded", TRUE)>>)]>>]>>,
      <<[k |-> PathS, v |->
           <<[k |-> "get", v |-> Operation("getS", HeaderAndNoLocation,
                    <<Media("application/xml", TRUE)>>)],
             [k |-> "patch", v |-> Operation("patchS", <<>>,
                    <<Media("application/json", TRUE)>>)]>>]>>,
      <<[k |-> PathP, v |->
           <<[k |-> "parameters", v |-> NotAnOperation],
             [k |-> "get", v |-> Operation("getP", <<>>, <<>>)]>>]>>,
      <<[k |-> PathS, v |->
           <<[k |-> "get", v |-> Operation("instance", <<>>, <<>>)],
             [k |-> "post", v |-> Operation("addS", <<>>,
                    <<Media("application/json", TRUE)>>)]>>]>> }

\* the API description build() loads; valid is the verdict of
\* SwaggerParser.validate on it
Documents ==
    [valid : BOOLEAN, host : {"", "h.io"}, basePath : {"", "/v2"},
     schemes : {<<>>, <<"https", "http">>}, paths : PathMaps2]
    \cup
    [valid : BOOLEAN, host : {""}, basePath : {""}, schemes : {<<>>},
     paths : PathMaps3]

\* the options argument of the constructor: absent, or an object
BuilderOptions ==
    { [given |-> FALSE, entries |-> <<>>],
      [given |-> TRUE, entries |-> <<[k |-> "timeout", v |-> <<"5000">>]>>],
      [given |-> TRUE, entries |-> <<[k |-> "baseURL", v |-> <<"http", "://", "c.io">>],
                                     [k |-> "timeout", v |-> <<"5000">>]>>] }

\* export() has not run; walked is the path map an export went through
NotExported ==
    [done |-> FALSE, validation |-> FALSE, walked |-> <<>>,
     dependencies |-> <<>>, units |-> <<>>]

\* no member of the client has been called with (path, args)
NotCalled == [done |-> FALSE, member |-> "", path |-> <<>>, outcome |-> "", invoker |-> 0]

\* new SwaggerClientBuilder(swaggerFile, options)
NewClient(swaggerFile, options) ==
    [status |-> "new", error |-> "",
     swaggerFile |-> swaggerFile,
     callerOptions |-> options,
     options |-> options.entries,
     paths |-> <<>>,
     validator |-> FALSE,
     instance |-> [created |-> FALSE, defaults |-> <<>>, holds |-> "null"],
     builtPaths |-> <<>>,
     members |-> <<>>,
     exported |-> NotExported,
     called |-> NotCalled]

\* _checkOperationIds(): every member of every path item has an operationId
CheckOperationIds(paths) ==
    \A i \in 1..Len(paths) : \A j \in 1..Len(paths[i].v) :
        paths[i].v[j].v.operationId # ""

\* `${this.protocol}://${this.host}${this.basePath}`; an absent basePath is null
BaseURLOf(api) ==
    <<IF api.schemes # <<>> THEN api.schemes[1] ELSE "http", "://", api.host,
      IF api.basePath # "" THEN api.basePath ELSE "null">>

RECURSIVE Spread(_, _, _)
\* { ...target, ...source }: the members of source from the i-th on, put onto target
Spread(target, source, i) ==
    IF i > Len(source) THEN target
    ELSE Spread(Put(target, source[i].k, source[i].v), source, i + 1)

\* this.options after the "Set options" step
OptionsAfterBuild(api, options) ==
    IF ~HasKey(options, "baseURL") /\ api.host # ""
    THEN Spread(<<[k |-> "baseURL", v |-> BaseURLOf(api)]>>, options, 1)
    ELSE options

\* variant: an operationId that is already a member keeps its first invoker
RegisterFirst(members, method, invoker) ==
    IF method.operationId # "" /\ ~HasKey(members, method.operationId)
    THEN Put(members, method.operationId, invoker)
    ELSE members

\* this[method.operationId] = primeObject[path][methodKey]
Register(members, method, invoker) ==
    IF method.operationId # ""
    THEN Put(members, method.operationId, invoker)
    ELSE members

RECURSIVE BuildMethods(_, _, _, _)
\* the inner loop of _buildPaths over the members of one path item
BuildMethods(path, methods, j, acc) ==
    IF j > Len(methods) THEN acc
    ELSE LET methodKey == methods[j].k
             method == methods[j].v
             invoker == [id |-> acc.created + 1, path |-> path,
                         methodKey |-> methodKey, method |-> method,
                         primeSchema |-> PrepareParameters(method.parameters)]
         IN  BuildMethods(path, methods, j + 1,
                [primeObject |-> Put(acc.primeObject, path,
                                     Put(Lookup(acc.primeObject, path),
                                         methodKey, invoker)),
                 members |-> Register(acc.members, method, invoker),
                 created |-> acc.created + 1])

RECURSIVE BuildPathsFrom(_, _, _)
\* the outer loop of _buildPaths, from the i-th path on
BuildPathsFrom(paths, i, acc) ==
    IF i > Len(paths) THEN acc
    ELSE BuildPathsFrom(paths, i + 1,
            BuildMethods(paths[i].k, paths[i].v, 1,
                [acc EXCEPT !.primeObject = Put(@, paths[i].k, <<>>)]))

BuildPaths(paths) ==
    BuildPathsFrom(paths, 1, [primeObject |-> <<>>, members |-> <<>>, created |-> 0])

\* this.instance after _buildPaths: the HTTP client axios.create returned,
\* unless this[method.operationId] = ... assigned the member instance
InstanceAfter(options, members) ==
    [created |-> TRUE, defaults |-> options,
     holds |-> IF HasKey(members, "instance") THEN "invoker" ELSE "axios"]

\* build(): the instance after the promise settles
BuildClient(c) ==
    LET api == c.swaggerFile
    IN  IF ~api.valid
        THEN [c EXCEPT !.status = "failed", !.error = "DocumentError"]
        ELSE IF ~CheckOperationIds(api.paths)
        THEN [c EXCEPT !.status = "failed", !.error = "OperationIdsRequired",
                       !.validator = TRUE, !.paths = api.paths]
        ELSE LET options == OptionsAfterBuild(api, c.options)
                 built == BuildPaths(api.paths)
             IN  [c EXCEPT !.status = "built",
                           !.validator = TRUE, !.paths = api.paths,
                           !.options = options,
                           !.instance = InstanceAfter(options, built.members),
                           !.builtPaths = built.primeObject,
                           !.members = built.members]

-----------------------------------------------------------------------------
(* The exporter: prepareForMustache(), export() and what template.mustache  *)
(* renders from them.  A schema the code leaves null is [present |-> FALSE]. *)

Null == [present |-> FALSE, schema |-> EmptyFragment]

Some(schema) == [present |-> TRUE, schema |-> schema]

\* schema?.[key] ? JSON.stringify(schema[key]) : null
FragmentOrNull(schema, key) ==
    IF HasKey(schema, key) THEN Some(Lookup(schema, key)) ELSE Null

\* Object.keys(method?.requestBody?.content || {})[0] || "application/json"
FirstContentType(content) ==
    IF Len(content) > 0 /\ content[1].k # "" THEN content[1].k ELSE "application/json"

\* the object pushed to paths for one member of one path item
MustacheEntry(path, methodKey, method) ==
    LET schema == PrepareParameters(method.parameters)
        contentType == FirstContentType(method.content)
    IN  [path |-> path, method |-> methodKey,
         operationId |-> method.operationId,
         contentType |-> contentType,
         isPost |-> methodKey \in PayloadMethods,
         isXML |-> contentType = "application/xml",
         isFormData |-> contentType = "multipart/form-data",
         isUrlEncoded |-> contentType = "application/x-www-form-urlencoded",
         paramsSchema |-> FragmentOrNull(schema, "params"),
         querySchema |-> FragmentOrNull(schema, "query"),
         bodySchema |-> FragmentOrNull(schema, "body"),
         requestBodySchema |->
            IF HasRequestBodySchema(method.content, contentType)
            THEN Some(RequestBodySchema(method.content, contentType))
            ELSE Null]

\* the members of all path items, in for-in order
Operations(paths) ==
    Flatten([i \in 1..Len(paths) |->
        [j \in 1..Len(paths[i].v) |->
            [path |-> paths[i].k, methodKey |-> paths[i].v[j].k,
             method |-> paths[i].v[j].v]]])

RECURSIVE EncoderDependencies(_, _, _)
\* dependencies['FormData'] / dependencies['xml2js'], set while walking the paths
EncoderDependencies(entries, i, dependencies) ==
    IF i > Len(entries) THEN dependencies
    ELSE EncoderDependencies(entries, i + 1,
            IF entries[i].contentType = "multipart/form-data"
            THEN Put(dependencies, "FormData", "form-data")
            ELSE IF entries[i].contentType = "application/xml"
            THEN Put(dependencies, "xml2js", "xml2js")
            ELSE dependencies)

PrepareForMustache(paths) ==
    LET ops == Operations(paths)
        entries == [n \in 1..Len(ops) |->
                        MustacheEntry(ops[n].path, ops[n].methodKey, ops[n].method)]
    IN  [paths |-> entries, dependencies |-> EncoderDependencies(entries, 1, <<>>)]

\* one validation block of the template: rendered when its schema is not null
Check(stage, rendered) ==
    IF rendered.present THEN <<[stage |-> stage, schema |-> rendered.schema]>> ELSE <<>>

\* what the {{#paths}} section renders for one entry
RenderUnit(entry, validation) ==
    [name |-> entry.operationId,
     path |-> entry.path, method |-> entry.method,
     contentType |-> entry.contentType,
     checks |-> IF validation
                THEN Check("params", entry.paramsSchema)
                        \o Check("query", entry.querySchema)
                        \o Check("body", entry.bodySchema)
                        \o Check("requestBody", entry.requestBodySchema)
                ELSE <<>>,
     encoder |-> IF ~entry.isPost THEN ""
                 ELSE IF entry.isXML THEN "xml2js"
                 ELSE IF entry.isFormData THEN "FormData"
                 ELSE IF entry.isUrlEncoded THEN "URLSearchParams"
                 ELSE ""]

\* export(filePath, options): { dependencies, code }
ExportOf(paths, validation) ==
    LET prepared == PrepareForMustache(paths)
    IN  [done |-> TRUE, validation |-> validation, walked |-> paths,
         dependencies |->
            <<[k |-> "axios", v |-> "axios"],
              [k |-> "{ URLSearchParams }", v |-> "url"]>> \o prepared.dependencies,
         units |-> [n \in 1..Len(prepared.paths) |->
                        RenderUnit(prepared.paths[n], validation)]]

\* the caller's value a rendered validation block checks
CheckedValue(stage, args) ==
    IF stage = "params" THEN args.params
    ELSE IF stage = "query" THEN args.query
    ELSE args.body

RECURSIVE RunChecks(_, _, _)
\* the rendered validation blocks in order: the first with violations throws Error
RunChecks(checks, i, args) ==
    IF i > Len(checks) THEN ""
    ELSE IF Validate(CheckedValue(checks[i].stage, args), checks[i].schema) > 0
    THEN "Error"
    ELSE RunChecks(checks, i + 1, args)

\* a call of the rendered unit, up to its await
RunUnit(unit, args) ==
    LET error == IF ~args.given THEN "TypeError" ELSE RunChecks(unit.checks, 1, args)
        data == IF unit.encoder = "xml2js"
                THEN ConvertBody("application/xml", args.body)
                ELSE IF unit.encoder = "FormData"
                THEN ConvertBody("multipart/form-data", args.body)
                ELSE IF unit.encoder = "URLSearchParams"
                THEN ConvertBody("application/x-www-form-urlencoded", args.body)
                ELSE Unencoded(args.body)
    IN  IF error # ""
        THEN [error |-> error, contentType |-> "", request |-> NoRequest]
        ELSE [error |-> "", contentType |-> unit.contentType,
              request |-> [method |-> unit.method,
                           url |-> BuildUrl(unit.path, args.params, args.query),
                           data |-> data,
                           headers |-> Put(IF args.options.hasHeaders
                                           THEN args.options.headers ELSE <<>>,
                                           "content-type", unit.contentType)]]

-----------------------------------------------------------------------------
(* Building and exporting *)

\* await Client.build()
Build ==
    /\ client.status = "new"
    /\ client' = BuildClient(client)
    /\ UNCHANGED <<pipelineVars, resolverVars, concurrentVars>>

\* await Client.export(filePath, { validation })
Export(validation) ==
    /\ client.status # "none"
    /\ ~client.exported.done
    /\ client' = [client EXCEPT !.exported = ExportOf(client.paths, validation)]
    /\ UNCHANGED <<pipelineVars, resolverVars, concurrentVars>>

\* await Client[member](path, args) for an HTTP method name: the member is an
\* invoker registered under that operationId, or it does not exist
CallMember(member, path) ==
    /\ client.status = "built"
    /\ ~client.called.done
    /\ client' = [client EXCEPT !.called =
            [done |-> TRUE, member |-> member, path |-> path,
             outcome |-> IF HasKey(client.members, member)
                         THEN "invoked" ELSE "TypeError",
             invoker |-> IF HasKey(client.members, member)
                         THEN Lookup(client.members, member).id ELSE 0]]
    /\ UNCHANGED <<pipelineVars, resolverVars, concurrentVars>>

InitBuilder ==
    /\ call = Idle
    /\ flight = NoFlight
    /\ heap = <<>>
    /\ builder = <<>>
    /\ phase = 0
    /\ once = <<>>
    /\ refLog = <<>>
    /\ docShape = NoDocument
    /\ \E swaggerFile \in Documents, options \in BuilderOptions :
            client = NewClient(swaggerFile, options)

NextBuilder ==
    \/ Build
    \/ \E validation \in BOOLEAN : Export(validation)
    \/ \E member \in MethodKeys, path \in {PathP, PathS} : CallMember(member, path)

SpecBuilder == InitBuilder /\ [][NextBuilder]_vars

-----------------------------------------------------------------------------
(* Properties of the built client *)

Built == client.status = "built"

\* the invokers of builtPaths, in the order of the path map
BuiltInvokers ==
    Flatten([i \in 1..Len(client.builtPaths) |->
        [j \in 1..Len(client.builtPaths[i].v) |-> client.builtPaths[i].v[j].v]])

\* the fragment a declaration belongs to
Location(parameter) == IF parameter.in = "formData" THEN "body" ELSE parameter.in

\* the declarations that have a location
Located(parameters) == {i \in 1..Len(parameters) : parameters[i].in # ""}

\* declaration j is for the same name in the same fragment as declaration i
SameProperty(parameters, i, j) ==
    /\ Location(parameters[j]) = Location(parameters[i])
    /\ parameters[j].name = parameters[i].name

\* what each declaration contributes to the result; with perDeclaration the
\* required list is judged by the declaration's own flag alone
Contributions(parameters, primeSchema, perDeclaration) ==
    /\ \A i \in Located(parameters) :
          /\ HasKey(primeSchema, Location(parameters[i]))
          /\ LET fragment == Lookup(primeSchema, Location(parameters[i]))
             IN  /\ HasKey(fragment.properties, parameters[i].name)
                 /\ InSeq(parameters[i].name, fragment.required) <=>
                        IF perDeclaration THEN parameters[i].required
                        ELSE \E j \in Located(parameters) :
                                SameProperty(parameters, i, j) /\ parameters[j].required
    /\ \A f \in 1..Len(primeSchema) :
          /\ \E i \in Located(parameters) : Location(parameters[i]) = primeSchema[f].k
          /\ \A q \in 1..Len(primeSchema[f].v.properties) :
                \E i \in Located(parameters) :
                    /\ Location(parameters[i]) = primeSchema[f].k
                    /\ parameters[i].name = primeSchema[f].v.properties[q].k
    /\ parameters = <<>> => primeSchema = <<>>

InvokerAt(n) ==
    LET op == Operations(client.paths)[n]
    IN  Lookup(Lookup(client.builtPaths, op.path), op.methodKey)

\* the last operation, in document order, carrying the operationId of the n-th
LastWithIdOf(n) ==
    LET ops == Operations(client.paths)
        same == {m \in 1..Len(ops) :
                    ops[m].method.operationId = ops[n].method.operationId}
    IN  CHOOSE m \in same : \A o \in same : o <= m

BuildSettled == client.status \in {"built", "failed"}

\* C15: a valid document in which some operation has no operationId is built,
\* and each of its operations has an invoker under its path and method.
C15_BuildsWithoutOperationId ==
    (/\ BuildSettled
     /\ client.swaggerFile.valid
     /\ ~CheckOperationIds(client.swaggerFile.paths)) =>
        /\ Built
        /\ \A n \in 1..Len(Operations(client.swaggerFile.paths)) :
              LET op == Operations(client.swaggerFile.paths)[n]
              IN  /\ HasKey(client.builtPaths, op.path)
                  /\ HasKey(Lookup(client.builtPaths, op.path), op.methodKey)

-----------------------------------------------------------------------------
(* Properties of the exported client *)

Exported == client.status # "none" /\ client.exported.done

\* the calls that carry an argument object
GivenArgs == {args \in ArgsSets : args.given}

\* the calls whose options carry no content-type header
PlainArgs ==
    {args \in GivenArgs :
        ~(args.options.hasHeaders /\
            \E i \in 1..Len(args.options.headers) :
                args.options.headers[i].k \in ContentTypeNames)}

\* the n-th rendered unit belongs to an operation that carries an operationId
Named(n) == client.exported.units[n].name # ""

\* the dynamic invoker's call for the operation of the n-th rendered unit
DynamicCall(n, args) ==
    LET op == Operations(client.exported.walked)[n]
    IN  Invoker(op.path, op.methodKey, op.method, args)

\* C16: with validation requested, the exported unit of an operation rejects
\* on validation for exactly the argument sets for which the dynamic invoker
\* of that operation rejects on validation.
C16_ExportedValidationParity ==
    (Built /\ Exported /\ client.exported.validation) =>
        \A n \in 1..Len(client.exported.units) : Named(n) =>
            \A args \in GivenArgs :
                (DynamicCall(n, args).error \in ValidationErrors)
                    <=> (RunUnit(client.exported.units[n], args).error = "Error")

\* C17: for a call that supplies no content-type, the content-type the
\* exported unit puts on the request equals the one the dynamic invoker
\* resolves for the same operation.
C17_ExportedContentTypeParity ==
    (Built /\ Exported) =>
        \A n \in 1..Len(client.exported.units) : Named(n) =>
            \A args \in PlainArgs :
                LET dynamic == DynamicCall(n, args)
                    unit == RunUnit(client.exported.units[n], args)
                IN  (~Thrown(dynamic) /\ unit.error = "") =>
                        /\ unit.contentType = dynamic.contentType
                        /\ Lookup(unit.request.headers, "content-type")
                              = Lookup(dynamic.request.headers, "content-type")

\* the packages named by the dependency manifest
Manifest ==
    {client.exported.dependencies[i].v : i \in 1..Len(client.exported.dependencies)}

\* some rendered unit converts the body with the encoder
UsesEncoder(encoder) ==
    \E n \in 1..Len(client.exported.units) : client.exported.units[n].encoder = encoder

\* C18: the manifest always names the HTTP client, names the validation engine
\* exactly when validation was requested, and names the form-data or the XML
\* encoder exactly when the code of some exported operation uses it.
C18_ManifestMatchesEmittedCode ==
    Exported =>
        /\ "axios" \in Manifest
        /\ "jsonschema" \in Manifest <=> client.exported.validation
        /\ "form-data" \in Manifest <=> UsesEncoder("FormData")
        /\ "xml2js" \in Manifest <=> UsesEncoder("xml2js")

\* the rendered units of the operation at one path and method
UnitsOf(op) ==
    {n \in 1..Len(client.exported.units) :
        /\ client.exported.units[n].path = op.path
        /\ client.exported.units[n].method = op.methodKey}

\* C19: the exported source holds exactly one unit for each operation of the
\* builder's path map that carries a non-empty operationId, named after it,
\* and no unit for an operation that has none.
C19_OneUnitPerOperationId ==
    Exported =>
        LET ops == Operations(client.exported.walked)
        IN  /\ \A n \in 1..Len(ops) :
                  IF ops[n].method.operationId # ""
                  THEN /\ Cardinality(UnitsOf(ops[n])) = 1
                       /\ \A u \in UnitsOf(ops[n]) :
                             client.exported.units[u].name = ops[n].method.operationId
                  ELSE UnitsOf(ops[n]) = {}
            /\ \A u \in 1..Len(client.exported.units) : Named(u)

\* the caller put a base URL into the constructor's options
CallerBaseURL == HasKey(client.callerOptions.entries, "baseURL")

\* scheme://host followed by the basePath the document declares
DeclaredBaseURL(api) ==
    <<IF api.schemes # <<>> THEN api.schemes[1] ELSE "http", "://", api.host>>
        \o (IF api.basePath # "" THEN <<api.basePath>> ELSE <<>>)

\* C20: when the document declares host and the caller gave no base URL, the
\* client's base URL is scheme://host followed by basePath, the scheme being
\* the first declared one or http; a base URL given by the caller is the one
\* used, and the caller's options object stays as supplied.
C20_BaseURL ==
    Built =>
        /\ (client.swaggerFile.host # "" /\ ~CallerBaseURL) =>
              /\ HasKey(client.instance.defaults, "baseURL")
              /\ Lookup(client.instance.defaults, "baseURL")
                    = DeclaredBaseURL(client.swaggerFile)
        /\ CallerBaseURL =>
              Lookup(client.instance.defaults, "baseURL")
                    = Lookup(client.callerOptions.entries, "baseURL")
        /\ client.callerOptions \in BuilderOptions

\* build() has rejected
BuildFailed == client.status = "failed" /\ client.error # ""

\* C22: after a build that failed (invalid description, or an operation
\* without operationId) no partial client exists: no invoker is registered
\* under an operationId or under a (path, method), and the builder exports no
\* operation of the document.
C22_NoPartialClientAfterFailedBuild ==
    BuildFailed =>
        /\ client.members = <<>>
        /\ client.builtPaths = <<>>
        /\ client.exported.done => client.exported.units = <<>>

NoDuplicate(s) == \A i, j \in 1..Len(s) : s[i] = s[j] => i = j

\* C27: in every synthesized fragment the required list has no duplicate and
\* holds a name exactly when the entry kept in properties for that name (the
\* last declaration) is flagged required, also for a list that declares one
\* name twice in one location.
C27_RequiredMatchesKeptDeclaration ==
    Built =>
        \A n \in 1..Len(BuiltInvokers) :
            LET primeSchema == BuiltInvokers[n].primeSchema
            IN  \A f \in 1..Len(primeSchema) :
                    LET fragment == primeSchema[f].v
                    IN  /\ NoDuplicate(fragment.required)
                        /\ \A p \in 1..Len(fragment.properties) :
                                InSeq(fragment.properties[p].k, fragment.required)
                                    <=> fragment.properties[p].v.required
                        /\ \A r \in 1..Len(fragment.required) :
                                HasKey(fragment.properties, fragment.required[r])

\* the document's operations: the members of the path items under an HTTP
\* method name
HttpMethodNames ==
    {"get", "post", "put", "patch", "delete", "options", "head", "trace"}

\* the invoker registered for (path, m), as a one-element set, or {}
RegisteredFor(path, m) ==
    IF HasKey(client.builtPaths, path) /\ HasKey(Lookup(client.builtPaths, path), m)
    THEN {Lookup(Lookup(client.builtPaths, path), m)}
    ELSE {}

\* C24: for each HTTP method name m the client has an operation m(path, args)
\* that runs the invoker registered for (path, m), and that fails with a
\* 'method not found' error when none is registered for (path, m).
C24_MethodDispatchers ==
    (Built /\ client.called.done) =>
        LET registered == RegisteredFor(client.called.path, client.called.member)
        IN  /\ registered = {} => client.called.outcome = "MethodNotFound"
            /\ \A invoker \in registered :
                    /\ client.called.outcome = "invoked"
                    /\ client.called.invoker = invoker.id

\* every operation of the document has an operationId
EveryOperationNamed(paths) ==
    \A i \in 1..Len(paths) : \A j \in 1..Len(paths[i].v) :
        paths[i].v[j].k \in HttpMethodNames => paths[i].v[j].v.operationId # ""

\* C29: only the members of a path item under an HTTP method name are
\* operations: no invoker is made for another member (a path-level parameters
\* list, a summary), and build succeeds whenever every HTTP-method operation
\* of a valid document has an operationId.
C29_OnlyHttpMethodMembers ==
    /\ (BuildSettled /\ client.swaggerFile.valid
            /\ EveryOperationNamed(client.swaggerFile.paths)) => Built
    /\ Built => \A n \in 1..Len(BuiltInvokers) :
                    BuiltInvokers[n].methodKey \in HttpMethodNames

\* the members the builder creates for itself
OwnMembers ==
    {"swaggerFile", "paths", "components", "definitions", "options", "api",
     "validator", "instance", "builtPaths", "host", "basePath", "protocol",
     "build", "export", "prepareForMustache",
     "_checkOperationIds", "_prepareParameters", "_buildPaths"}

\* C30: registering invokers under operationIds replaces no member the
\* client relies on: after build, whatever operationIds the document declares,
\* the HTTP client instance, the validator, the path map, build and export
\* are the ones the builder created, and the invokers dispatch through that
\* HTTP client instance.
C30_RegistrationKeepsOwnMembers ==
    Built =>
        /\ \A i \in 1..Len(client.members) : client.members[i].k \notin OwnMembers
        /\ client.instance.holds = "axios"

====
